---- MODULE Spec2Model ----
(***************************************************************************)
(* The delegated-signer registry of packages/protocol/contracts/common/    *)
(* Accounts.sol: account creation, authorization of the vote, validation   *)
(* and attestation signers, and the two-way resolution between accounts    *)
(* and their signers.  Every external function is one transaction: it      *)
(* either commits all its writes or reverts and writes nothing.            *)
(***************************************************************************)
EXTENDS Integers, FiniteSets, Sequences, TLC

\* Number of externally owned addresses that take part (bound of the model).
NumAddr == 4

\* address(0), the default value of every storage slot of type address.
NULL_ADDRESS == 0

\* Addresses that hold a private key: they send transactions and sign.
Key == 1..NumAddr

Address == Key \cup {NULL_ADDRESS}

\* The three fields of struct Signers.
Role == {"voting", "validating", "attesting"}

\* What signature recovery yields when the signature was not made over the
\* message it is checked against: no address that takes part.
NoSigner == NumAddr + 1

\* An ECDSA signature (v, r, s): made by the key of `signer` over the
\* address `over`.
Proof == [signer : Key, over : Key]

\* The mark of an (account, role) that no authorization has succeeded for.
Never == NumAddr + 2

\* The least length of a data encryption key.
MinKeyLength == 33

\* Number of addresses that set their profile data (bound of the model).
NumProfiled == 1

\* Number of addresses whose authorizations are followed statement by
\* statement (bound of the model).
NumCallers == 2

\* Greatest number of authorization calls in progress at once, one nested in
\* the signature recovery of the other (bound of the model).
MaxDepth == 2

\* Greatest number of authorizations followed statement by statement (bound
\* of the model).
MaxCalls == 2

VARIABLES
  accounts,      \* mapping(address => Account); of the bytes of a data
                 \* encryption key, which are never read, only the length
  authorizedBy,  \* mapping(address => address)
  last,          \* the receipt of the last transaction
  lastAuth,      \* history: the signer of the last successful authorization
                 \* of each (account, role), Never when there is none
  notEntered,    \* the flag of ReentrancyGuard
  stack,         \* the authorization calls in progress, the innermost last
  log,           \* the events emitted, in the order of their emission
  committed,     \* history: the authorizations whose writes are done, in
                 \* the order of the write of the signer field
  members,       \* contractkit: the member list of the validator group, as
                 \* the Validators contract returns it
  built,         \* contractkit: what the last call of reorderMember gave
  accountAddressToPrivateKey,
                 \* contractkit: the Map of CeloPrivateKeysWalletProvider
  answer         \* contractkit: what the last call of the provider gave

vars == <<accounts, authorizedBy, last, lastAuth, notEntered, stack, log,
          committed, members, built, accountAddressToPrivateKey, answer>>

\* The state of the contractkit objects, which no transaction of the
\* registry touches.
kitVars == <<members, built, accountAddressToPrivateKey, answer>>

\* The state of the registry contract and of the calls followed in it.
registryVars == <<accounts, authorizedBy, last, lastAuth, notEntered, stack,
                  log, committed>>

\* What changes only while a call is followed statement by statement.
stepVars == <<notEntered, stack, log, committed>>

\* The contract storage as one value.
Storage == [accounts |-> accounts, authorizedBy |-> authorizedBy]

EmptySigners == [r \in Role |-> NULL_ADDRESS]

\* The default value of struct Account.
EmptyAccount ==
  [exists |-> FALSE, signers |-> EmptySigners, walletAddress |-> NULL_ADDRESS,
   dataEncryptionKey |-> 0, metadataURL |-> ""]

----------------------------------------------------------------------------
\* Views

isAccount(st, account) == st.accounts[account].exists

isNotAccount(st, account) == ~st.accounts[account].exists

isNotAuthorized(st, account) == st.authorizedBy[account] = NULL_ADDRESS

isAuthorized(st, account) == st.authorizedBy[account] # NULL_ADDRESS

\* Signatures.getSignerOfAddress(message, v, r, s): the signer of `message`.
getSignerOfAddress(message, proof) ==
  IF proof.over = message THEN proof.signer ELSE NoSigner

----------------------------------------------------------------------------
\* Transactions.  A transaction yields the error kind ("ok" when it
\* succeeded), the storage it leaves and the events it emitted.

\* A failed require: every write of the transaction is undone, no event.
Revert(st, kind) ==
  [err |-> kind, accounts |-> st.accounts, authorizedBy |-> st.authorizedBy,
   events |-> <<>>]

\* createAccount that forgets that the sender may be an authorized signer.
createAccount_anySigner(st, sender) ==
  IF ~isNotAccount(st, sender) THEN Revert(st, "AlreadyIdentity")
  ELSE [err |-> "ok",
        accounts |-> [st.accounts EXCEPT ![sender].exists = TRUE],
        authorizedBy |-> st.authorizedBy,
        events |-> <<>>]

\* createAccount that forgets that the sender may be an account already.
createAccount_again(st, sender) ==
  IF ~isNotAuthorized(st, sender) THEN Revert(st, "AlreadyDelegate")
  ELSE [err |-> "ok",
        accounts |-> [st.accounts EXCEPT ![sender].exists = TRUE],
        authorizedBy |-> st.authorizedBy,
        events |-> <<>>]

\* createAccount that writes first and reports a failure by its return value
\* instead of reverting.
createAccount_writeFirst(st, sender) ==
  LET written == [st.accounts EXCEPT ![sender].exists = TRUE]
  IN  IF ~isNotAccount(st, sender) THEN Revert(st, "AlreadyIdentity")
      ELSE IF ~isNotAuthorized(st, sender)
        THEN [err |-> "AlreadyDelegate", accounts |-> written,
              authorizedBy |-> st.authorizedBy, events |-> <<>>]
      ELSE [err |-> "ok", accounts |-> written,
            authorizedBy |-> st.authorizedBy, events |-> <<>>]

createAccount(st, sender) ==
  IF ~isNotAccount(st, sender) THEN Revert(st, "AlreadyIdentity")
  ELSE IF ~isNotAuthorized(st, sender) THEN Revert(st, "AlreadyDelegate")
  ELSE [err |-> "ok",
        accounts |-> [st.accounts EXCEPT ![sender].exists = TRUE],
        authorizedBy |-> st.authorizedBy,
        events |-> <<>>]

\* authorize that leaves the previous signer in authorizedBy.
authorize_noRelease(st, sender, current, previous, proof) ==
  IF ~isAccount(st, sender)
    THEN [err |-> "UnknownIdentity", authorizedBy |-> st.authorizedBy]
  ELSE IF ~isNotAccount(st, current)
    THEN [err |-> "CandidateIsIdentity", authorizedBy |-> st.authorizedBy]
  ELSE IF ~isNotAuthorized(st, current)
    THEN [err |-> "CandidateAlreadyClaimed", authorizedBy |-> st.authorizedBy]
  ELSE IF getSignerOfAddress(sender, proof) # current
    THEN [err |-> "InvalidSignature", authorizedBy |-> st.authorizedBy]
  ELSE [err |-> "ok",
        authorizedBy |-> [st.authorizedBy EXCEPT ![current] = sender]]

\* authorize that does not check whether `current` is authorized already.
authorize_noClaimCheck(st, sender, current, previous, proof) ==
  IF ~isAccount(st, sender)
    THEN [err |-> "UnknownIdentity", authorizedBy |-> st.authorizedBy]
  ELSE IF ~isNotAccount(st, current)
    THEN [err |-> "CandidateIsIdentity", authorizedBy |-> st.authorizedBy]
  ELSE IF getSignerOfAddress(sender, proof) # current
    THEN [err |-> "InvalidSignature", authorizedBy |-> st.authorizedBy]
  ELSE [err |-> "ok",
        authorizedBy |->
          [[st.authorizedBy EXCEPT ![previous] = NULL_ADDRESS]
             EXCEPT ![current] = sender]]

\* authorize that recovers the signer and does not compare it with `current`.
authorize_noSignerCheck(st, sender, current, previous, proof) ==
  IF ~isAccount(st, sender)
    THEN [err |-> "UnknownIdentity", authorizedBy |-> st.authorizedBy]
  ELSE IF ~isNotAccount(st, current)
    THEN [err |-> "CandidateIsIdentity", authorizedBy |-> st.authorizedBy]
  ELSE IF ~isNotAuthorized(st, current)
    THEN [err |-> "CandidateAlreadyClaimed", authorizedBy |-> st.authorizedBy]
  ELSE [err |-> "ok",
        authorizedBy |->
          [[st.authorizedBy EXCEPT ![previous] = NULL_ADDRESS]
             EXCEPT ![current] = sender]]

\* authorize that checks the candidate before the sender.
authorize_candidateFirst(st, sender, current, previous, proof) ==
  IF ~isNotAccount(st, current)
    THEN [err |-> "CandidateIsIdentity", authorizedBy |-> st.authorizedBy]
  ELSE IF ~isNotAuthorized(st, current)
    THEN [err |-> "CandidateAlreadyClaimed", authorizedBy |-> st.authorizedBy]
  ELSE IF ~isAccount(st, sender)
    THEN [err |-> "UnknownIdentity", authorizedBy |-> st.authorizedBy]
  ELSE IF getSignerOfAddress(sender, proof) # current
    THEN [err |-> "InvalidSignature", authorizedBy |-> st.authorizedBy]
  ELSE [err |-> "ok",
        authorizedBy |->
          [[st.authorizedBy EXCEPT ![previous] = NULL_ADDRESS]
             EXCEPT ![current] = sender]]

\* authorize that lets an account be a candidate.
authorize_accountCandidate(st, sender, current, previous, proof) ==
  IF ~isAccount(st, sender)
    THEN [err |-> "UnknownIdentity", authorizedBy |-> st.authorizedBy]
  ELSE IF ~isNotAuthorized(st, current)
    THEN [err |-> "CandidateAlreadyClaimed", authorizedBy |-> st.authorizedBy]
  ELSE IF getSignerOfAddress(sender, proof) # current
    THEN [err |-> "InvalidSignature", authorizedBy |-> st.authorizedBy]
  ELSE [err |-> "ok",
        authorizedBy |->
          [[st.authorizedBy EXCEPT ![previous] = NULL_ADDRESS]
             EXCEPT ![current] = sender]]

\* authorize without the write of authorizedBy[current].
authorize_noClaim(st, sender, current, previous, proof) ==
  IF ~isAccount(st, sender)
    THEN [err |-> "UnknownIdentity", authorizedBy |-> st.authorizedBy]
  ELSE IF ~isNotAccount(st, current)
    THEN [err |-> "CandidateIsIdentity", authorizedBy |-> st.authorizedBy]
  ELSE IF ~isNotAuthorized(st, current)
    THEN [err |-> "CandidateAlreadyClaimed", authorizedBy |-> st.authorizedBy]
  ELSE IF getSignerOfAddress(sender, proof) # current
    THEN [err |-> "InvalidSignature", authorizedBy |-> st.authorizedBy]
  ELSE [err |-> "ok",
        authorizedBy |-> [st.authorizedBy EXCEPT ![previous] = NULL_ADDRESS]]

\* authorize that accepts a candidate the sender has authorized already.
authorize_ownSignerAgain(st, sender, current, previous, proof) ==
  IF ~isAccount(st, sender)
    THEN [err |-> "UnknownIdentity", authorizedBy |-> st.authorizedBy]
  ELSE IF ~isNotAccount(st, current)
    THEN [err |-> "CandidateIsIdentity", authorizedBy |-> st.authorizedBy]
  ELSE IF st.authorizedBy[current] \notin {NULL_ADDRESS, sender}
    THEN [err |-> "CandidateAlreadyClaimed", authorizedBy |-> st.authorizedBy]
  ELSE IF getSignerOfAddress(sender, proof) # current
    THEN [err |-> "InvalidSignature", authorizedBy |-> st.authorizedBy]
  ELSE [err |-> "ok",
        authorizedBy |->
          [[st.authorizedBy EXCEPT ![previous] = NULL_ADDRESS]
             EXCEPT ![current] = sender]]

\* The private helper of the three authorizations: the checks, then the two
\* writes of authorizedBy, in the order of the code.
authorize(st, sender, current, previous, proof) ==
  IF ~isAccount(st, sender)
    THEN [err |-> "UnknownIdentity", authorizedBy |-> st.authorizedBy]
  ELSE IF ~isNotAccount(st, current)
    THEN [err |-> "CandidateIsIdentity", authorizedBy |-> st.authorizedBy]
  ELSE IF ~isNotAuthorized(st, current)
    THEN [err |-> "CandidateAlreadyClaimed", authorizedBy |-> st.authorizedBy]
  ELSE IF getSignerOfAddress(sender, proof) # current
    THEN [err |-> "InvalidSignature", authorizedBy |-> st.authorizedBy]
  ELSE [err |-> "ok",
        authorizedBy |->
          [[st.authorizedBy EXCEPT ![previous] = NULL_ADDRESS]
             EXCEPT ![current] = sender]]

\* authorizeVoteSigner that passes the validation signer as the previous one.
authorizeVoteSigner_wrongPrevious(st, sender, voter, proof) ==
  LET a == authorize(st, sender, voter,
                     st.accounts[sender].signers.validating, proof)
  IN  IF a.err # "ok" THEN Revert(st, a.err)
      ELSE [err |-> "ok",
            accounts |-> [st.accounts EXCEPT ![sender].signers.voting = voter],
            authorizedBy |-> a.authorizedBy,
            events |-> <<[name |-> "VoteSignerAuthorized",
                          account |-> sender, signer |-> voter]>>]

authorizeVoteSigner(st, sender, voter, proof) ==
  LET a == authorize(st, sender, voter, st.accounts[sender].signers.voting, proof)
  IN  IF a.err # "ok" THEN Revert(st, a.err)
      ELSE [err |-> "ok",
            accounts |-> [st.accounts EXCEPT ![sender].signers.voting = voter],
            authorizedBy |-> a.authorizedBy,
            events |-> <<[name |-> "VoteSignerAuthorized",
                          account |-> sender, signer |-> voter]>>]

\* authorizeValidationSigner that stores the signer in the voting field.
authorizeValidationSigner_wrongField(st, sender, validator, proof) ==
  LET a == authorize(st, sender, validator,
                     st.accounts[sender].signers.validating, proof)
  IN  IF a.err # "ok" THEN Revert(st, a.err)
      ELSE [err |-> "ok",
            accounts |-> [st.accounts EXCEPT ![sender].signers.voting = validator],
            authorizedBy |-> a.authorizedBy,
            events |-> <<[name |-> "ValidationSignerAuthorized",
                          account |-> sender, signer |-> validator]>>]

authorizeValidationSigner(st, sender, validator, proof) ==
  LET a == authorize(st, sender, validator,
                     st.accounts[sender].signers.validating, proof)
  IN  IF a.err # "ok" THEN Revert(st, a.err)
      ELSE [err |-> "ok",
            accounts |-> [st.accounts EXCEPT ![sender].signers.validating = validator],
            authorizedBy |-> a.authorizedBy,
            events |-> <<[name |-> "ValidationSignerAuthorized",
                          account |-> sender, signer |-> validator]>>]

\* authorizeAttestationSigner that does not store the signer.
authorizeAttestationSigner_noStore(st, sender, attestor, proof) ==
  LET a == authorize(st, sender, attestor,
                     st.accounts[sender].signers.attesting, proof)
  IN  IF a.err # "ok" THEN Revert(st, a.err)
      ELSE [err |-> "ok",
            accounts |-> st.accounts,
            authorizedBy |-> a.authorizedBy,
            events |-> <<[name |-> "AttestationSignerAuthorized",
                          account |-> sender, signer |-> attestor]>>]

authorizeAttestationSigner(st, sender, attestor, proof) ==
  LET a == authorize(st, sender, attestor,
                     st.accounts[sender].signers.attesting, proof)
  IN  IF a.err # "ok" THEN Revert(st, a.err)
      ELSE [err |-> "ok",
            accounts |-> [st.accounts EXCEPT ![sender].signers.attesting = attestor],
            authorizedBy |-> a.authorizedBy,
            events |-> <<[name |-> "AttestationSignerAuthorized",
                          account |-> sender, signer |-> attestor]>>]

\* authorizeDelegate(caller, role, candidate, proof): the entry point of the role.
authorizeDelegate(st, sender, role, signer, proof) ==
  CASE role = "voting"     -> authorizeVoteSigner(st, sender, signer, proof)
    [] role = "validating" -> authorizeValidationSigner(st, sender, signer, proof)
    [] role = "attesting"  -> authorizeAttestationSigner(st, sender, signer, proof)

----------------------------------------------------------------------------
\* The setters of the profile data of msg.sender.

\* setWalletAddress that stores a fresh Account with the wallet address.
setWalletAddress_freshAccount(st, sender, walletAddress) ==
  [err |-> "ok",
   accounts |-> [st.accounts EXCEPT
                   ![sender] = [exists |-> FALSE,
                                signers |-> [voting |-> NULL_ADDRESS,
                                             validating |-> NULL_ADDRESS,
                                             attesting |-> NULL_ADDRESS],
                                walletAddress |-> walletAddress,
                                dataEncryptionKey |-> 0,
                                metadataURL |-> ""]],
   authorizedBy |-> st.authorizedBy,
   events |-> <<[name |-> "AccountWalletAddressSet", account |-> sender,
                 walletAddress |-> walletAddress]>>]

setWalletAddress(st, sender, walletAddress) ==
  [err |-> "ok",
   accounts |-> [st.accounts EXCEPT ![sender].walletAddress = walletAddress],
   authorizedBy |-> st.authorizedBy,
   events |-> <<[name |-> "AccountWalletAddressSet", account |-> sender,
                 walletAddress |-> walletAddress]>>]

setAccountDataEncryptionKey(st, sender, dataEncryptionKey) ==
  IF ~(dataEncryptionKey >= MinKeyLength)
    THEN Revert(st, "data encryption key length <= 32")
  ELSE [err |-> "ok",
        accounts |-> [st.accounts EXCEPT
                        ![sender].dataEncryptionKey = dataEncryptionKey],
        authorizedBy |-> st.authorizedBy,
        events |-> <<[name |-> "AccountDataEncryptionKeySet",
                      account |-> sender,
                      dataEncryptionKey |-> dataEncryptionKey]>>]

\* setMetadataURL that makes the sender an account.
setMetadataURL_registers(st, sender, metadataURL) ==
  [err |-> "ok",
   accounts |-> [st.accounts EXCEPT ![sender].metadataURL = metadataURL,
                                    ![sender].exists = TRUE],
   authorizedBy |-> st.authorizedBy,
   events |-> <<[name |-> "AccountMetadataURLSet", account |-> sender,
                 metadataURL |-> metadataURL]>>]

setMetadataURL(st, sender, metadataURL) ==
  [err |-> "ok",
   accounts |-> [st.accounts EXCEPT ![sender].metadataURL = metadataURL],
   authorizedBy |-> st.authorizedBy,
   events |-> <<[name |-> "AccountMetadataURLSet", account |-> sender,
                 metadataURL |-> metadataURL]>>]

\* setAccount: the key, then the wallet address, in one transaction.
setAccount(st, sender, dataEncryptionKey, walletAddress) ==
  LET k == setAccountDataEncryptionKey(st, sender, dataEncryptionKey)
      w == setWalletAddress([accounts |-> k.accounts,
                             authorizedBy |-> k.authorizedBy],
                            sender, walletAddress)
  IN  IF k.err # "ok" THEN Revert(st, k.err)
      ELSE [w EXCEPT !.events = k.events \o w.events]

----------------------------------------------------------------------------
\* Resolution.  A view yields the error kind and, when "ok", the address.

Fail(kind) == [err |-> kind, value |-> NULL_ADDRESS]

Return(a) == [err |-> "ok", value |-> a]

\* getAccountFromAttestationSigner without require(isAccount(...)) in the
\* else branch.
getAccountFromAttestationSigner_noAccountCheck(st, accountOrAttestationSigner) ==
  LET authorizingAccount == st.authorizedBy[accountOrAttestationSigner]
  IN  IF authorizingAccount # NULL_ADDRESS
        THEN IF st.accounts[authorizingAccount].signers.attesting
                  = accountOrAttestationSigner
               THEN Return(authorizingAccount)
               ELSE Fail("StaleAuthorization")
        ELSE Return(accountOrAttestationSigner)

getAccountFromAttestationSigner(st, accountOrAttestationSigner) ==
  LET authorizingAccount == st.authorizedBy[accountOrAttestationSigner]
  IN  IF authorizingAccount # NULL_ADDRESS
        THEN IF st.accounts[authorizingAccount].signers.attesting
                  = accountOrAttestationSigner
               THEN Return(authorizingAccount)
               ELSE Fail("StaleAuthorization")
        ELSE IF isAccount(st, accountOrAttestationSigner)
               THEN Return(accountOrAttestationSigner)
               ELSE Fail("UnknownIdentity")

\* getAccountFromVoteSigner that does not compare the vote signer of the
\* authorizing account with the address.
getAccountFromVoteSigner_noRequire(st, accountOrVoteSigner) ==
  LET authorizingAccount == st.authorizedBy[accountOrVoteSigner]
  IN  IF authorizingAccount # NULL_ADDRESS
        THEN Return(authorizingAccount)
        ELSE IF isAccount(st, accountOrVoteSigner)
               THEN Return(accountOrVoteSigner)
               ELSE Fail("UnknownIdentity")

getAccountFromVoteSigner(st, accountOrVoteSigner) ==
  LET authorizingAccount == st.authorizedBy[accountOrVoteSigner]
  IN  IF authorizingAccount # NULL_ADDRESS
        THEN IF st.accounts[authorizingAccount].signers.voting = accountOrVoteSigner
               THEN Return(authorizingAccount)
               ELSE Fail("StaleAuthorization")
        ELSE IF isAccount(st, accountOrVoteSigner)
               THEN Return(accountOrVoteSigner)
               ELSE Fail("UnknownIdentity")

\* getAccountFromValidationSigner that refuses an account which has
\* authorized a validation signer.
getAccountFromValidationSigner_exclusive(st, accountOrValidationSigner) ==
  LET authorizingAccount == st.authorizedBy[accountOrValidationSigner]
  IN  IF authorizingAccount # NULL_ADDRESS
        THEN IF st.accounts[authorizingAccount].signers.validating
                  = accountOrValidationSigner
               THEN Return(authorizingAccount)
               ELSE Fail("StaleAuthorization")
        ELSE IF /\ isAccount(st, accountOrValidationSigner)
                /\ st.accounts[accountOrValidationSigner].signers.validating
                     = NULL_ADDRESS
               THEN Return(accountOrValidationSigner)
               ELSE Fail("UnknownIdentity")

getAccountFromValidationSigner(st, accountOrValidationSigner) ==
  LET authorizingAccount == st.authorizedBy[accountOrValidationSigner]
  IN  IF authorizingAccount # NULL_ADDRESS
        THEN IF st.accounts[authorizingAccount].signers.validating
                  = accountOrValidationSigner
               THEN Return(authorizingAccount)
               ELSE Fail("StaleAuthorization")
        ELSE IF isAccount(st, accountOrValidationSigner)
               THEN Return(accountOrValidationSigner)
               ELSE Fail("UnknownIdentity")

\* getVoteSignerFromAccount without require(isAccount(account)).
getVoteSignerFromAccount_noRequire(st, account) ==
  LET voter == st.accounts[account].signers.voting
  IN  Return(IF voter = NULL_ADDRESS THEN account ELSE voter)

getVoteSignerFromAccount(st, account) ==
  IF ~isAccount(st, account) THEN Fail("UnknownIdentity")
  ELSE LET voter == st.accounts[account].signers.voting
       IN  Return(IF voter = NULL_ADDRESS THEN account ELSE voter)

getValidationSignerFromAccount(st, account) ==
  IF ~isAccount(st, account) THEN Fail("UnknownIdentity")
  ELSE LET validator == st.accounts[account].signers.validating
       IN  Return(IF validator = NULL_ADDRESS THEN account ELSE validator)

\* getAttestationSignerFromAccount that returns the stored field as it is.
getAttestationSignerFromAccount_raw(st, account) ==
  IF ~isAccount(st, account) THEN Fail("UnknownIdentity")
  ELSE Return(st.accounts[account].signers.attesting)

getAttestationSignerFromAccount(st, account) ==
  IF ~isAccount(st, account) THEN Fail("UnknownIdentity")
  ELSE LET attestor == st.accounts[account].signers.attesting
       IN  Return(IF attestor = NULL_ADDRESS THEN account ELSE attestor)

\* identityOf(role, address) and delegateOf(identity, role): the view of the role.
identityOf(st, role, a) ==
  CASE role = "voting"     -> getAccountFromVoteSigner(st, a)
    [] role = "validating" -> getAccountFromValidationSigner(st, a)
    [] role = "attesting"  -> getAccountFromAttestationSigner(st, a)

delegateOf(st, account, role) ==
  CASE role = "voting"     -> getVoteSignerFromAccount(st, account)
    [] role = "validating" -> getValidationSignerFromAccount(st, account)
    [] role = "attesting"  -> getAttestationSignerFromAccount(st, account)

----------------------------------------------------------------------------
\* The state machine: one action per external function.

\* The signatures a caller presents with `current`: the one the key of
\* `current` made over the caller, those it made over the accounts that
\* authorized `current` last for a role (a replay), and the caller's own
\* signature over itself.
Presented(sender, current) ==
  {[signer |-> sender, over |-> sender]}
    \cup {[signer |-> current, over |-> a] :
            a \in {k \in Key :
                     /\ current # NULL_ADDRESS
                     /\ \/ k = sender
                        \/ \E r \in Role : lastAuth[k][r] = current}}

\* The receipt of a transaction.  A committed one shows the call and its
\* events; a reverted one leaves nothing but the kind of its failure.
NoProof == [signer |-> NULL_ADDRESS, over |-> NULL_ADDRESS]

NoCall == [op |-> "none", err |-> "ok", sender |-> NULL_ADDRESS,
           role |-> "none", signer |-> NULL_ADDRESS, proof |-> NoProof,
           previous |-> NULL_ADDRESS, events |-> <<>>]

\* The registry after deployment.
Deployed ==
  /\ accounts = [a \in Address |-> EmptyAccount]
  /\ authorizedBy = [a \in Address |-> NULL_ADDRESS]
  /\ last = NoCall
  /\ lastAuth = [a \in Address |-> [r \in Role |-> Never]]
  /\ notEntered = TRUE
  /\ stack = <<>>
  /\ log = <<>>
  /\ committed = <<>>

\* What reorderMember gives when it throws, and before its first call.
Thrown(kind) ==
  [err |-> kind, validator |-> NULL_ADDRESS, nextMember |-> NULL_ADDRESS,
   prevMember |-> NULL_ADDRESS, members |-> <<>>]

\* What a call of the provider gives: the route a request took or the error
\* thrown, the private key a signature was made with (0 for none), the
\* address the call was about and the helpers called on the way; for a
\* request, its method.
Answer(op, kind, key, from, lookups) ==
  [op |-> op, kind |-> kind, key |-> key, from |-> from, lookups |-> lookups,
   method |-> "none"]

\* The value of a property that is not there.
Undefined == [id |-> 0, case |-> "undefined"]

NoAnswer == Answer("none", "none", 0, Undefined, <<>>)

\* No contractkit object is in use.
NoKit ==
  /\ members = <<>>
  /\ built = Thrown("none")
  /\ accountAddressToPrivateKey = <<>>
  /\ answer = NoAnswer

Init == Deployed /\ NoKit

CreateAccount ==
  \E sender \in Key :
    LET tx == createAccount(Storage, sender)
    IN  /\ accounts' = tx.accounts
        /\ authorizedBy' = tx.authorizedBy
        /\ last' = IF tx.err = "ok"
                     THEN [NoCall EXCEPT !.op = "createAccount",
                                         !.sender = sender,
                                         !.events = tx.events]
                     ELSE [NoCall EXCEPT !.op = "createAccount",
                                         !.err = tx.err,
                                         !.events = tx.events]
        /\ UNCHANGED lastAuth
        /\ UNCHANGED stepVars
        /\ UNCHANGED kitVars

\* The step of one authorization transaction for `role`, whose result is tx.
Authorized(tx, sender, role, signer, proof) ==
  /\ accounts' = tx.accounts
  /\ authorizedBy' = tx.authorizedBy
  /\ last' = IF tx.err = "ok"
               THEN [op |-> "authorize", err |-> "ok", sender |-> sender,
                     role |-> role, signer |-> signer, proof |-> proof,
                     previous |-> accounts[sender].signers[role],
                     events |-> tx.events]
               ELSE [NoCall EXCEPT !.op = "authorize", !.err = tx.err,
                                   !.events = tx.events]
  /\ lastAuth' = IF tx.err = "ok"
                   THEN [lastAuth EXCEPT ![sender][role] = signer]
                   ELSE lastAuth
  /\ UNCHANGED stepVars
  /\ UNCHANGED kitVars

AuthorizeVoteSigner ==
  \E sender \in Key, voter \in Address :
    \E proof \in Presented(sender, voter) :
      Authorized(authorizeVoteSigner(Storage, sender, voter, proof),
                 sender, "voting", voter, proof)

AuthorizeValidationSigner ==
  \E sender \in Key, validator \in Address :
    \E proof \in Presented(sender, validator) :
      Authorized(authorizeValidationSigner(Storage, sender, validator, proof),
                 sender, "validating", validator, proof)

AuthorizeAttestationSigner ==
  \E sender \in Key, attestor \in Address :
    \E proof \in Presented(sender, attestor) :
      Authorized(authorizeAttestationSigner(Storage, sender, attestor, proof),
                 sender, "attesting", attestor, proof)

Next ==
  \/ CreateAccount
  \/ AuthorizeVoteSigner
  \/ AuthorizeValidationSigner
  \/ AuthorizeAttestationSigner

Spec == Init /\ [][Next]_vars

----------------------------------------------------------------------------
\* The registry together with the profile setters.  The signatures are the
\* valid ones here; the addresses of ProfileSender set profile data.

ProfileSender == 1..NumProfiled

KeyLengths == {MinKeyLength - 1, MinKeyLength}

URLs == {"", "https://example.org/metadata"}

\* The wallet addresses a sender sets: its own address, or none.
Wallets(sender) == {NULL_ADDRESS, sender}

\* The step of one setter transaction, whose result is tx.
ProfileSet(tx, op, sender) ==
  /\ accounts' = tx.accounts
  /\ authorizedBy' = tx.authorizedBy
  /\ last' = IF tx.err = "ok"
               THEN [NoCall EXCEPT !.op = op, !.sender = sender,
                                   !.events = tx.events]
               ELSE [NoCall EXCEPT !.op = op, !.err = tx.err,
                                   !.events = tx.events]
  /\ UNCHANGED lastAuth
  /\ UNCHANGED stepVars
  /\ UNCHANGED kitVars

SetWalletAddress ==
  \E sender \in ProfileSender :
    \E walletAddress \in Wallets(sender) :
    ProfileSet(setWalletAddress(Storage, sender, walletAddress),
               "setWalletAddress", sender)

SetAccountDataEncryptionKey ==
  \E sender \in ProfileSender, dataEncryptionKey \in KeyLengths :
    ProfileSet(setAccountDataEncryptionKey(Storage, sender, dataEncryptionKey),
               "setAccountDataEncryptionKey", sender)

SetMetadataURL ==
  \E sender \in ProfileSender, metadataURL \in URLs :
    ProfileSet(setMetadataURL(Storage, sender, metadataURL),
               "setMetadataURL", sender)

SetAccount ==
  \E sender \in ProfileSender, dataEncryptionKey \in KeyLengths :
    \E walletAddress \in Wallets(sender) :
    ProfileSet(setAccount(Storage, sender, dataEncryptionKey, walletAddress),
               "setAccount", sender)

SignedAuthorizeVoteSigner ==
  \E sender \in Key, voter \in Key :
    Authorized(authorizeVoteSigner(Storage, sender, voter,
                                   [signer |-> voter, over |-> sender]),
               sender, "voting", voter, [signer |-> voter, over |-> sender])

SignedAuthorizeValidationSigner ==
  \E sender \in Key, validator \in Key :
    Authorized(authorizeValidationSigner(Storage, sender, validator,
                                         [signer |-> validator, over |-> sender]),
               sender, "validating", validator,
               [signer |-> validator, over |-> sender])

SignedAuthorizeAttestationSigner ==
  \E sender \in Key, attestor \in Key :
    Authorized(authorizeAttestationSigner(Storage, sender, attestor,
                                          [signer |-> attestor, over |-> sender]),
               sender, "attesting", attestor,
               [signer |-> attestor, over |-> sender])

NextProfile ==
  \/ CreateAccount
  \/ SignedAuthorizeVoteSigner
  \/ SignedAuthorizeValidationSigner
  \/ SignedAuthorizeAttestationSigner
  \/ SetWalletAddress
  \/ SetAccountDataEncryptionKey
  \/ SetMetadataURL
  \/ SetAccount

SpecProfile == Init /\ [][NextProfile]_vars

----------------------------------------------------------------------------
\* The registry with callers that present the signature of the candidate over
\* themselves: every call passes the signature check, if it comes to it.

NextSigned ==
  \/ CreateAccount
  \/ SignedAuthorizeVoteSigner
  \/ SignedAuthorizeValidationSigner
  \/ SignedAuthorizeAttestationSigner

SpecSigned == Init /\ [][NextSigned]_vars

----------------------------------------------------------------------------
\* The authorizations statement by statement.  A transaction runs alone, so
\* another call begins only when no call is in progress, or inside the one
\* external call of an authorization, the recovery of the signer at line 287,
\* where the code that verifies the signature may call the registry again.

\* The entry points that carry the modifier nonReentrant.
nonReentrant == {"voting", "validating"}

\* The statements of an authorization after the require of line 285, in the
\* order of the code, but with the signer recovered between the two writes of
\* authorizedBy and the write of the signer field.
authorizeBody_recoverBeforeStore ==
  <<"release", "claim", "recover", "store", "emit", "return">>

\* The statements of an authorization after the require of line 285, in the
\* order of the code, but with the event emitted before the writes.
authorizeBody_emitFirst ==
  <<"recover", "emit", "release", "claim", "store", "return">>

\* The statements of an authorization after the require of line 285, in the
\* order of the code: lines 287-288, 290, 291, then the write of the signer
\* field and the emit of the entry point.
authorizeBody ==
  <<"recover", "release", "claim", "store", "emit", "return">>

\* The event of the entry point of `role`.
AuthorizedEvent(role, account, signer) ==
  [name |-> CASE role = "voting"     -> "VoteSignerAuthorized"
              [] role = "validating" -> "ValidationSignerAuthorized"
              [] role = "attesting"  -> "AttestationSignerAuthorized",
   account |-> account, signer |-> signer]

\* The outcome of the require of line 285.
authorizeRequire(st, sender, current) ==
  IF ~isAccount(st, sender) THEN "UnknownIdentity"
  ELSE IF ~isNotAccount(st, current) THEN "CandidateIsIdentity"
  ELSE IF ~isNotAuthorized(st, current) THEN "CandidateAlreadyClaimed"
  ELSE "ok"

Top == stack[Len(stack)]

\* The statements of the call `f` that are still to run.
Todo(f) == {f.todo[i] : i \in 1..Len(f.todo)}

\* A call is waiting in its external call.
InExternalCall(f) == Len(f.todo) > 0 /\ Head(f.todo) = "recover"

\* The states in which a call or a read of another caller can take place.
AtCallPoint == IF Len(stack) = 0 THEN TRUE ELSE InExternalCall(Top)

\* The senders of the authorizations followed statement by statement.
Caller == 1..NumCallers

\* The signatures a caller presents with `current`: the signature of
\* `current` over the caller, and the caller's own signature over itself.
Signed(sender, current) ==
  {p \in Proof : p.over = sender /\ p.signer \in {current, sender}}

\* What a revert of the call restores.
Snapshot ==
  [accounts |-> accounts, authorizedBy |-> authorizedBy, lastAuth |-> lastAuth,
   log |-> log, committed |-> committed]

\* The entry of an authorization: the guard of the modifier, the read of the
\* previous signer and the require of line 285.
BeginAuthorize(role) ==
  /\ AtCallPoint
  /\ Len(stack) < MaxDepth
  /\ Len(committed) + Len(stack) < MaxCalls
  /\ UNCHANGED kitVars
  /\ \E sender \in Caller, signer \in Address :
       \E proof \in Signed(sender, signer) :
         LET kind == IF role \in nonReentrant /\ ~notEntered
                       THEN "Reentrant"
                       ELSE authorizeRequire(Storage, sender, signer)
         IN  IF kind # "ok"
               THEN /\ last' = [NoCall EXCEPT !.op = "authorize", !.err = kind]
                    /\ UNCHANGED <<accounts, authorizedBy, lastAuth, stepVars>>
               ELSE /\ stack' = Append(stack,
                          [role |-> role, sender |-> sender, signer |-> signer,
                           proof |-> proof,
                           previous |-> accounts[sender].signers[role],
                           todo |-> authorizeBody,
                           snapshot |-> Snapshot])
                    /\ notEntered' = IF role \in nonReentrant
                                       THEN FALSE ELSE notEntered
                    /\ UNCHANGED <<accounts, authorizedBy, last, lastAuth,
                                   log, committed>>

BeginAuthorizeVoteSigner == BeginAuthorize("voting")

BeginAuthorizeValidationSigner == BeginAuthorize("validating")

BeginAuthorizeAttestationSigner == BeginAuthorize("attesting")

\* createAccount makes no external call: it runs in one step, also inside
\* the external call of an authorization.
CreateAccountStep == AtCallPoint /\ CreateAccount

\* The innermost call runs its next statement.
Running(statement) ==
  Len(stack) > 0 /\ Len(Top.todo) > 0 /\ Head(Top.todo) = statement

Advance == stack' = [stack EXCEPT ![Len(stack)].todo = Tail(@)]

\* RecoverSigner whose revert leaves the guard as it is.
RecoverSigner_keepGuard ==
  /\ Running("recover")
  /\ UNCHANGED kitVars
  /\ IF getSignerOfAddress(Top.sender, Top.proof) = Top.signer
       THEN /\ Advance
            /\ UNCHANGED <<accounts, authorizedBy, last, lastAuth, notEntered,
                           log, committed>>
       ELSE /\ accounts' = Top.snapshot.accounts
            /\ authorizedBy' = Top.snapshot.authorizedBy
            /\ lastAuth' = Top.snapshot.lastAuth
            /\ log' = Top.snapshot.log
            /\ committed' = Top.snapshot.committed
            /\ stack' = SubSeq(stack, 1, Len(stack) - 1)
            /\ notEntered' = notEntered
            /\ last' = [NoCall EXCEPT !.op = "authorize",
                                      !.err = "InvalidSignature",
                                      !.role = Top.role]

\* Lines 287-288: the signer is recovered; when it is not `current` the call
\* reverts, and with it everything that was done since it began.
RecoverSigner ==
  /\ Running("recover")
  /\ UNCHANGED kitVars
  /\ IF getSignerOfAddress(Top.sender, Top.proof) = Top.signer
       THEN /\ Advance
            /\ UNCHANGED <<accounts, authorizedBy, last, lastAuth, notEntered,
                           log, committed>>
       ELSE /\ accounts' = Top.snapshot.accounts
            /\ authorizedBy' = Top.snapshot.authorizedBy
            /\ lastAuth' = Top.snapshot.lastAuth
            /\ log' = Top.snapshot.log
            /\ committed' = Top.snapshot.committed
            /\ stack' = SubSeq(stack, 1, Len(stack) - 1)
            /\ notEntered' = IF Top.role \in nonReentrant THEN TRUE ELSE notEntered
            /\ last' = [NoCall EXCEPT !.op = "authorize",
                                      !.err = "InvalidSignature",
                                      !.role = Top.role]

\* Line 290.
ReleasePrevious ==
  /\ Running("release")
  /\ UNCHANGED kitVars
  /\ authorizedBy' = [authorizedBy EXCEPT ![Top.previous] = NULL_ADDRESS]
  /\ Advance
  /\ UNCHANGED <<accounts, last, lastAuth, notEntered, log, committed>>

\* Line 291.
ClaimCurrent ==
  /\ Running("claim")
  /\ UNCHANGED kitVars
  /\ authorizedBy' = [authorizedBy EXCEPT ![Top.signer] = Top.sender]
  /\ Advance
  /\ UNCHANGED <<accounts, last, lastAuth, notEntered, log, committed>>

\* The write of the signer field: lines 123, 146, 168.
StoreSigner ==
  /\ Running("store")
  /\ UNCHANGED kitVars
  /\ accounts' = [accounts EXCEPT ![Top.sender].signers[Top.role] = Top.signer]
  /\ lastAuth' = [lastAuth EXCEPT ![Top.sender][Top.role] = Top.signer]
  /\ committed' = Append(committed,
                         [account |-> Top.sender, role |-> Top.role,
                          signer |-> Top.signer])
  /\ Advance
  /\ UNCHANGED <<authorizedBy, last, notEntered, log>>

\* The emit: lines 124, 147, 169.
EmitAuthorized ==
  /\ Running("emit")
  /\ UNCHANGED kitVars
  /\ log' = Append(log, AuthorizedEvent(Top.role, Top.sender, Top.signer))
  /\ Advance
  /\ UNCHANGED <<accounts, authorizedBy, last, lastAuth, notEntered, committed>>

\* The end of the entry point: the modifier releases the guard.
ReturnAuthorized ==
  /\ Running("return")
  /\ UNCHANGED kitVars
  /\ stack' = SubSeq(stack, 1, Len(stack) - 1)
  /\ notEntered' = IF Top.role \in nonReentrant THEN TRUE ELSE notEntered
  /\ last' = [op |-> "authorize", err |-> "ok", sender |-> Top.sender,
              role |-> Top.role, signer |-> Top.signer, proof |-> Top.proof,
              previous |-> Top.previous,
              events |-> <<AuthorizedEvent(Top.role, Top.sender, Top.signer)>>]
  /\ UNCHANGED <<accounts, authorizedBy, lastAuth, log, committed>>

NextSteps ==
  \/ CreateAccountStep
  \/ BeginAuthorizeVoteSigner
  \/ BeginAuthorizeValidationSigner
  \/ BeginAuthorizeAttestationSigner
  \/ RecoverSigner
  \/ ReleasePrevious
  \/ ClaimCurrent
  \/ StoreSigner
  \/ EmitAuthorized
  \/ ReturnAuthorized

SpecSteps == Init /\ [][NextSteps]_vars

----------------------------------------------------------------------------
\* Properties of the registry

Registered == {a \in Address : accounts[a].exists}

Claimed == {a \in Address : authorizedBy[a] # NULL_ADDRESS}

Committed(op) == last.op = op /\ last.err = "ok"

\* The signature of `signer` over `account`: the proof authorize accepts.
ValidProof(signer, account) == [signer |-> signer, over |-> account]

\* C1 (disjointness): in every reachable state, whatever calls succeeded or
\* failed on the way, no address is both an account (exists = true) and a key
\* of authorizedBy (authorizedBy[addr] != 0).
C1_Disjointness == Registered \cap Claimed = {}

\* An authorized signer has tried to create an account and was refused.
C1_Witness ==
  /\ last.op = "createAccount" /\ last.err = "AlreadyDelegate"
  /\ Registered # {} /\ Claimed # {}

\* C2 (index consistency): for every address x with authorizedBy[x] = i,
\* exactly one of the three signer fields of account i holds x, and no field
\* of any other account holds x.
C2_IndexConsistency ==
  \A x \in Claimed :
    LET i == authorizedBy[x]
    IN  /\ Cardinality({r \in Role : accounts[i].signers[r] = x}) = 1
        /\ \A j \in Address \ {i} : \A r \in Role : accounts[j].signers[r] # x

\* The last authorization replaced a signer of an account that holds a signer
\* for another role too.
C2_Witness ==
  /\ Committed("authorize") /\ last.previous # NULL_ADDRESS
  /\ \E r \in Role \ {last.role} :
       accounts[last.sender].signers[r] # NULL_ADDRESS

\* C3 (single claim): in every reachable state, an authorization by a
\* registered account of a candidate that is a key of authorizedBy fails with
\* CandidateAlreadyClaimed and changes nothing: for every role, whether the
\* candidate is claimed by another account or by the caller itself, and
\* also when the proof is the candidate's valid signature over the caller.
C3_SingleClaim ==
  \A sender \in Registered, candidate \in Claimed :
    \A role \in Role, proof \in Presented(sender, candidate) :
      authorizeDelegate(Storage, sender, role, candidate, proof)
        = Revert(Storage, "CandidateAlreadyClaimed")

\* An authorization was refused as CandidateAlreadyClaimed while only one
\* account was registered: the caller itself holds the candidate.
C3_Witness ==
  /\ last.op = "authorize" /\ last.err = "CandidateAlreadyClaimed"
  /\ Cardinality(Registered) = 1
  /\ Cardinality(Claimed) = 2

\* C4 (release on replace): when an account whose field for a role holds c1
\* has authorized another signer for that role, c1 is no key of authorizedBy
\* any more, so that in the state right after it createAccount by c1 succeeds
\* and every registered account can authorize c1 for each of the three
\* roles with c1's signature over it.
C4_ReleaseOnReplace ==
  (Committed("authorize") /\ last.previous # NULL_ADDRESS) =>
    LET c1 == last.previous
    IN  /\ authorizedBy[c1] = NULL_ADDRESS
        /\ createAccount(Storage, c1).err = "ok"
        /\ \A other \in Registered : \A role \in Role :
             authorizeDelegate(Storage, other, role, c1,
                               ValidProof(c1, other)).err = "ok"

\* A signer has just been replaced while another account is registered.
C4_Witness ==
  /\ Committed("authorize") /\ last.previous # NULL_ADDRESS
  /\ Registered \ {last.sender} # {}

\* C5 (round trip): right after a successful authorization of signer c for
\* role r of account i, for each of the three roles r, the account of c for
\* role r is i and the signer of i for role r is c.
C5_RoundTrip ==
  Committed("authorize") =>
    /\ identityOf(Storage, last.role, last.signer) = Return(last.sender)
    /\ delegateOf(Storage, last.sender, last.role) = Return(last.signer)

\* An account has just authorized a signer while all its three roles have one.
C5_Witness ==
  /\ Committed("authorize")
  /\ \A r \in Role : accounts[last.sender].signers[r] # NULL_ADDRESS

\* C6 (signature binding): an authorization is accepted only with a proof
\* whose signer, recovered over the caller's address, is the candidate, so a
\* signature that b made over account a is never accepted from another
\* caller; and a call that passes the three checks before the signature
\* check with any other proof fails with InvalidSignature.
C6_SignatureBinding ==
  /\ Committed("authorize") =>
       last.proof = ValidProof(last.signer, last.sender)
  /\ \A sender \in Registered, candidate \in Address \ (Registered \cup Claimed) :
       \A role \in Role, proof \in Proof :
         getSignerOfAddress(sender, proof) # candidate =>
           authorizeDelegate(Storage, sender, role, candidate, proof).err
             = "InvalidSignature"

\* A call failed with InvalidSignature while an account holds a signer, whose
\* signature another registered account could present.
C6_Witness ==
  /\ last.op = "authorize" /\ last.err = "InvalidSignature"
  /\ \E x \in Claimed : Registered \ {authorizedBy[x]} # {}

\* C7 (failure atomicity): every failing createAccount or authorization
\* leaves every exists flag, every signer field and every entry of
\* authorizedBy as before the call, and emits no event.
C7_FailureAtomicity ==
  [][last'.err # "ok" =>
       /\ accounts' = accounts
       /\ authorizedBy' = authorizedBy
       /\ last'.events = <<>>]_vars

\* Calls have failed in a registry that holds accounts and signers.
C7_Witness ==
  /\ last.err \in {"AlreadyIdentity", "CandidateIsIdentity"}
  /\ Cardinality(Registered) >= 2 /\ Cardinality(Claimed) >= 2

\* C8 (createAccount): in every reachable state createAccount by an address
\* succeeds exactly when the address is neither an account nor a key of
\* authorizedBy; it fails with AlreadyIdentity when the address is an account,
\* so a second createAccount by the same address fails, and with
\* AlreadyDelegate when the address is an authorized signer.
C8_CreateAccount ==
  \A caller \in Key :
    LET tx == createAccount(Storage, caller)
        after == [accounts |-> tx.accounts, authorizedBy |-> tx.authorizedBy]
    IN  /\ tx.err = "ok" <=> caller \notin Registered \cup Claimed
        /\ caller \in Registered => tx.err = "AlreadyIdentity"
        /\ caller \in Claimed => tx.err = "AlreadyDelegate"
        /\ tx.err = "ok" => /\ after.accounts[caller].exists
                            /\ createAccount(after, caller).err = "AlreadyIdentity"

\* A registered account has called createAccount again.
C8_Witness ==
  /\ last.op = "createAccount" /\ last.err = "AlreadyIdentity"
  /\ Claimed # {}

\* C9 (self-default): the signer of a registered account for a role whose
\* field is empty is the account itself; right after a successful
\* createAccount the three fields of the new account are empty and its vote,
\* validation and attestation signers are all the account itself.
C9_SelfDefault ==
  /\ \A i \in Registered : \A r \in Role :
       accounts[i].signers[r] = NULL_ADDRESS =>
         delegateOf(Storage, i, r) = Return(i)
  /\ Committed("createAccount") =>
       \A r \in Role :
         /\ accounts[last.sender].signers[r] = NULL_ADDRESS
         /\ delegateOf(Storage, last.sender, r) = Return(last.sender)

\* An account has just been created beside an account that holds a signer.
C9_Witness ==
  /\ Committed("createAccount")
  /\ Claimed # {}

\* C10 (last authorized): for every registered account i and role r, the
\* signer of i for r is i itself exactly when no authorization of i for r has
\* ever succeeded, and otherwise it is the candidate of the last one that
\* succeeded, whatever other accounts did and whatever i did for other roles.
C10_LastAuthorized ==
  \A i \in Registered : \A r \in Role :
    /\ delegateOf(Storage, i, r) = Return(i) <=> lastAuth[i][r] = Never
    /\ lastAuth[i][r] # Never => delegateOf(Storage, i, r) = Return(lastAuth[i][r])

\* An account has just replaced the signer of one role, holds a signer for
\* another role and has never authorized one for the third.
C10_Witness ==
  /\ Committed("authorize") /\ last.previous # NULL_ADDRESS
  /\ \E r1, r2 \in Role \ {last.role} :
       /\ lastAuth[last.sender][r1] = Never
       /\ lastAuth[last.sender][r2] # Never

\* An address has set profile data: one of its profile fields is not empty.
HasProfile(a) ==
  \/ accounts[a].walletAddress # NULL_ADDRESS
  \/ accounts[a].dataEncryptionKey # 0
  \/ accounts[a].metadataURL # ""

\* C11 (unknown identity): for an address that is no registered account the
\* vote, validation and attestation signer getters all fail with
\* UnknownIdentity, also when the address is an authorized signer of an account
\* and when it has only set profile data; they return no address for it.
C11_UnknownIdentity ==
  \A a \in Address \ Registered : \A r \in Role :
    delegateOf(Storage, a, r) = Fail("UnknownIdentity")

\* One unregistered address is a signer of an account, another unregistered
\* one has only profile data.
C11_Witness ==
  /\ Claimed # {}
  /\ \E p \in Key \ (Registered \cup Claimed) : HasProfile(p)

\* C12 (an account is its own signer): for an address x without an entry in
\* authorizedBy that is a registered account, the account of x is x for every
\* role; hence in every reachable state the account of a registered account i
\* is i for every role, whether or not i has authorized a signer for the role.
C12_AccountResolvesToItself ==
  /\ \A x \in Registered : \A r \in Role :
       authorizedBy[x] = NULL_ADDRESS => identityOf(Storage, r, x) = Return(x)
  /\ \A i \in Registered : \A r \in Role : identityOf(Storage, r, i) = Return(i)

\* An account holds a signer for each of the three roles.
C12_Witness ==
  \E i \in Registered : \A r \in Role : accounts[i].signers[r] \in Claimed

\* C13 as claimed (StaleAuthorization unreachable): for every role and every
\* address, resolving the account of the address never fails with
\* StaleAuthorization.
C13_NeverStale ==
  \A r \in Role : \A x \in Address :
    identityOf(Storage, r, x).err # "StaleAuthorization"

\* C13 as amended: resolving the account of an address x fails with
\* StaleAuthorization exactly when x has an entry in authorizedBy and the role
\* asked for is not the role x is authorized for; for the one role whose
\* field of the authorizing account holds x it returns that account.
C13_StaleOnlyForOtherRole ==
  /\ \A x \in Claimed :
       LET held == {r \in Role : accounts[authorizedBy[x]].signers[r] = x}
       IN  /\ Cardinality(held) = 1
           /\ \A r \in held : identityOf(Storage, r, x) = Return(authorizedBy[x])
           /\ \A r \in Role \ held :
                identityOf(Storage, r, x) = Fail("StaleAuthorization")
  /\ \A x \in Address \ Claimed : \A r \in Role :
       identityOf(Storage, r, x).err # "StaleAuthorization"

\* Signers of two different roles are authorized.
C13_Witness ==
  \E x, y \in Claimed :
    /\ identityOf(Storage, "voting", x).err = "ok"
    /\ identityOf(Storage, "voting", y).err = "StaleAuthorization"
    /\ identityOf(Storage, "validating", y).err = "ok"

\* The writes of an authorization.
Writes == {"release", "claim", "store"}

\* The call `f` has done some of its writes and not all of them.
Partial(f) == Writes \ Todo(f) # {} /\ Writes \cap Todo(f) # {}

\* The innermost call has written the signer field and not yet emitted.
EmitPending ==
  IF Len(stack) = 0 THEN FALSE
  ELSE "store" \notin Todo(Top) /\ "emit" \in Todo(Top)

\* C14 (notifications): each successful authorization emits exactly one
\* event, which carries the caller, the role (as the name of the event) and
\* the signer, and emits it after authorizedBy and the signer field are
\* written; failed calls and createAccount emit none; the events are in the
\* order of the successful authorizations.
C14_Notifications ==
  /\ Len(committed) = Len(log) + (IF EmitPending THEN 1 ELSE 0)
  /\ \A i \in 1..Len(log) :
       log[i] = AuthorizedEvent(committed[i].role, committed[i].account,
                                committed[i].signer)
  /\ \A i \in 1..Len(stack) :
       "emit" \notin Todo(stack[i]) =>
         /\ Writes \cap Todo(stack[i]) = {}
         /\ authorizedBy[stack[i].signer] = stack[i].sender
         /\ accounts[stack[i].sender].signers[stack[i].role] = stack[i].signer
         /\ log[Len(log)] = AuthorizedEvent(stack[i].role, stack[i].sender,
                                            stack[i].signer)
  /\ last.err # "ok" => last.events = <<>>
  /\ last.op = "createAccount" => last.events = <<>>
  /\ Committed("authorize") =>
       last.events = <<AuthorizedEvent(last.role, last.sender, last.signer)>>

\* Two authorizations succeeded one after the other, the second one replacing
\* the signer of the first, and both events are in the log.
C14_Witness ==
  /\ Len(stack) = 0
  /\ Committed("authorize")
  /\ Len(log) = 2
  /\ log[1].account = log[2].account
  /\ log[1].name = log[2].name
  /\ log[1].signer # log[2].signer
  /\ last.previous = log[1].signer

\* C15 (atomic commit): the writes of a successful authorization (the release
\* of the previous signer, the claim of the new one, the signer field) are one
\* step for every other call and every read: in no state in which a call or a
\* read of another caller can take place has a call done some of its writes
\* and not the others.
C15_AtomicCommit ==
  \A i \in 1..Len(stack) :
    Partial(stack[i]) => i = Len(stack) /\ ~AtCallPoint

\* A call nested in another one has updated authorizedBy and not yet the
\* signer field.
C15_Witness ==
  /\ Len(stack) = 2
  /\ Partial(Top)
  /\ "claim" \notin Todo(Top)
  /\ "store" \in Todo(Top)
  /\ authorizedBy[Top.signer] = Top.sender
  /\ accounts[Top.sender].signers[Top.role] # Top.signer

\* C16 (non-reentrancy): each of the three authorizations runs under the
\* guard, so while one authorization is in progress no nested call of an
\* authorization, for any role, begins and writes to the registry.
C16_NonReentrancy ==
  \A i \in 2..Len(stack) : Writes \subseteq Todo(stack[i])

\* C17 (candidate is an account): an authorization whose candidate is a
\* registered account fails for every role and every proof, the candidate's
\* valid signature included, and changes nothing; from a registered caller
\* it fails with CandidateIsIdentity, also when the candidate is the caller
\* itself (an unregistered caller is refused before, as UnknownIdentity).
C17_CandidateIsIdentity ==
  \A candidate \in Registered : \A sender \in Key :
    \A role \in Role, proof \in Presented(sender, candidate) :
      authorizeDelegate(Storage, sender, role, candidate, proof)
        = Revert(Storage, IF sender \in Registered
                            THEN "CandidateIsIdentity"
                            ELSE "UnknownIdentity")

\* An authorization was refused as CandidateIsIdentity while only one account
\* was registered: the caller named itself.
C17_Witness ==
  /\ last.op = "authorize" /\ last.err = "CandidateIsIdentity"
  /\ Cardinality(Registered) = 1

\* C18 (slot state machine): a signer field of an account changes only in a
\* successful authorization by that account for that role, and a field that
\* holds an address never becomes empty again.
C18_SlotStateMachine ==
  [][\A i \in Address : \A r \in Role :
       accounts'[i].signers[r] # accounts[i].signers[r] =>
         /\ last'.op = "authorize" /\ last'.err = "ok"
         /\ last'.sender = i /\ last'.role = r
         /\ accounts'[i].signers[r] # NULL_ADDRESS]_vars

\* A field that held a signer has just been given another one.
C18_Witness ==
  /\ Committed("authorize") /\ last.previous # NULL_ADDRESS
  /\ accounts[last.sender].signers[last.role] = last.signer
  /\ last.signer # last.previous

\* C19 (identity permanence): once an address is a registered account it is
\* one in every later state: no createAccount, authorization or profile setter
\* unregisters it.
C19_IdentityPermanence ==
  [][\A a \in Address : accounts[a].exists => accounts'[a].exists]_vars

\* A registered account that holds a signer has just set profile data.
C19_Witness ==
  /\ last.op \in {"setWalletAddress", "setAccount"} /\ last.err = "ok"
  /\ last.sender \in Registered
  /\ accounts[last.sender].signers.voting # NULL_ADDRESS
  /\ HasProfile(last.sender)

\* The kind of failure of an authorization as the decision table gives it.
DecisionTable(sender, candidate, proof) ==
  IF sender \notin Registered THEN "UnknownIdentity"
  ELSE IF candidate \in Registered THEN "CandidateIsIdentity"
  ELSE IF candidate \in Claimed THEN "CandidateAlreadyClaimed"
  ELSE IF ~(proof.over = sender /\ proof.signer = candidate)
    THEN "InvalidSignature"
  ELSE "ok"

\* C20 (decision table): an authorization succeeds if and only if the caller
\* is a registered account, the candidate is no registered account and no key
\* of authorizedBy, and the proof is the candidate's signature over the
\* caller; otherwise it fails with the first failure in the order
\* UnknownIdentity, CandidateIsIdentity, CandidateAlreadyClaimed,
\* InvalidSignature.
C20_DecisionTable ==
  \A sender \in Key, candidate \in Address :
    \A role \in Role, proof \in Presented(sender, candidate) :
      authorizeDelegate(Storage, sender, role, candidate, proof).err
        = DecisionTable(sender, candidate, proof)

\* An unregistered caller has named a registered account as candidate: two
\* conditions fail and the first one is reported.
C20_Witness ==
  /\ last.op = "authorize" /\ last.err = "UnknownIdentity"
  /\ Registered # {} /\ Claimed # {}
  /\ Key \ (Registered \cup Claimed) # {}

\* C23 (unknown address): an address that is neither a key of authorizedBy
\* nor an account resolves to no account, for any role; so a signer released
\* by a new authorization no longer resolves to the account it signed for.
C23_UnknownAddress ==
  \A x \in Address \ (Registered \cup Claimed) : \A role \in Role :
    identityOf(Storage, role, x) = Fail("UnknownIdentity")

\* The last authorization released a signer, which is now neither claimed
\* nor registered, while the account it signed for is still registered.
C23_Witness ==
  /\ Committed("authorize")
  /\ last.previous # NULL_ADDRESS
  /\ last.previous \notin Registered \cup Claimed
  /\ lastAuth[last.sender][last.role] = last.signer
  /\ last.sender \in Registered

\* C24 (role independence): a successful authorization of C by I for role R
\* writes the field R of I, the entry of C and the entry of the previous
\* signer of (I, R) in authorizedBy, and nothing else: no other field of I,
\* no field of another account, no other entry of authorizedBy, no exists
\* flag.
C24_RoleIndependence ==
  [][(last'.op = "authorize" /\ last'.err = "ok") =>
       \A a \in Address :
         /\ accounts'[a].exists = accounts[a].exists
         /\ \A q \in Role :
              (a # last'.sender \/ q # last'.role) =>
                accounts'[a].signers[q] = accounts[a].signers[q]
         /\ a \notin {last'.signer, last'.previous} =>
              authorizedBy'[a] = authorizedBy[a]]_vars

\* An account authorized a signer while another account holds a signer for
\* the same role.
C24_Witness ==
  /\ Committed("authorize")
  /\ \E j \in Registered \ {last.sender} :
       accounts[j].signers[last.role] \notin {NULL_ADDRESS, last.signer}

\* C25 (exclusive validation signer): whenever an address resolves to an
\* account for the validation role, it is the validation signer of that
\* account; an account that has authorized a validation signer no longer
\* resolves to itself.
C25_ExclusiveValidationSigner ==
  \A x \in Address : \A i \in Address :
    identityOf(Storage, "validating", x) = Return(i) =>
      delegateOf(Storage, i, "validating") = Return(x)

\* C25, amended: the addresses that resolve to an account I for the
\* validation role are I itself and, once I has authorized a validation
\* signer V, also V; only getValidationSignerFromAccount is exclusive: it
\* returns V and no longer I.
C25_SignerOrAccount ==
  \A i \in Registered :
    LET v == accounts[i].signers.validating
    IN  /\ {x \in Address : identityOf(Storage, "validating", x) = Return(i)}
             = IF v = NULL_ADDRESS THEN {i} ELSE {i, v}
        /\ delegateOf(Storage, i, "validating")
             = Return(IF v = NULL_ADDRESS THEN i ELSE v)

\* An account has just authorized a validation signer, and holds no other
\* signer.
C25_Witness ==
  /\ Committed("authorize") /\ last.role = "validating"
  /\ accounts[last.sender].signers.validating = last.signer
  /\ Cardinality(Claimed) = 1

\* The signer fields that hold an address.
Assigned ==
  {ir \in Address \X Role : accounts[ir[1]].signers[ir[2]] # NULL_ADDRESS}

\* C27 (converse index consistency): every signer field of an account i that
\* holds an address x has authorizedBy[x] = i, no address is held by two
\* fields (of one account or of two), and authorizedBy has as many entries
\* as there are fields that hold an address.
C27_ConverseConsistency ==
  /\ \A ir \in Assigned :
       LET x == accounts[ir[1]].signers[ir[2]]
       IN  /\ authorizedBy[x] = ir[1]
           /\ \A js \in Assigned \ {ir} : accounts[js[1]].signers[js[2]] # x
  /\ Cardinality(Claimed) = Cardinality(Assigned)

\* Two accounts hold a signer each, for different roles.
C27_Witness ==
  /\ Committed("authorize")
  /\ Cardinality({ir[1] : ir \in Assigned}) = 2
  /\ Cardinality({ir[2] : ir \in Assigned}) = 2

\* C28 (no idempotent re-authorization): an account that holds C as its
\* signer for role R and authorizes C again for R, with C's valid signature,
\* fails with CandidateAlreadyClaimed and changes nothing.
C28_NotIdempotent ==
  \A ir \in Assigned :
    LET c == accounts[ir[1]].signers[ir[2]]
    IN  authorizeDelegate(Storage, ir[1], ir[2], c, ValidProof(c, ir[1]))
          = Revert(Storage, "CandidateAlreadyClaimed")

\* The one account there is was refused a candidate as claimed already: it
\* holds that candidate itself.
C28_Witness ==
  /\ last.op = "authorize" /\ last.err = "CandidateAlreadyClaimed"
  /\ Cardinality(Registered) = 1
  /\ Cardinality(Claimed) = 1

\* C29 (the proof binds caller and candidate only): the signature of a free
\* address C over an account I is accepted from I for each of the three
\* roles; and when I replaces its signer P, P's signature over I, the one
\* that was accepted before, is accepted from I again, for each role.
C29_ProofBindsPair ==
  /\ \A i \in Registered, c \in Key \ (Registered \cup Claimed) :
       \A r \in Role :
         authorizeDelegate(Storage, i, r, c, ValidProof(c, i)).err = "ok"
  /\ \A ir \in Assigned, c \in Key \ (Registered \cup Claimed) :
       LET i == ir[1]
           p == accounts[i].signers[ir[2]]
           replaced == authorizeDelegate(Storage, i, ir[2], c, ValidProof(c, i))
       IN  \A q \in Role :
             authorizeDelegate(replaced, i, q, p, ValidProof(p, i)).err = "ok"

\* An account has just replaced its signer P, whose signature over the
\* account was accepted when P was authorized: the account can present it
\* again, for another role.
C29_Witness ==
  /\ Committed("authorize")
  /\ last.previous \in Key \ (Registered \cup Claimed)
  /\ \E q \in Role \ {last.role} :
       authorizeDelegate(Storage, last.sender, q, last.previous,
                         ValidProof(last.previous, last.sender)).err = "ok"

\* C22 (guard release): the guard is held exactly while a call of an entry
\* point that takes it is in progress; it is released on every exit, the
\* failing ones included, so once the calls have returned it is not held and
\* the next call is not refused because of it.
C22_GuardRelease ==
  notEntered = (\A i \in 1..Len(stack) : stack[i].role \notin nonReentrant)

\* An authorization that had taken the guard failed with InvalidSignature
\* and has returned; the guard is free.
C22_Witness ==
  /\ Len(stack) = 0
  /\ last.op = "authorize" /\ last.err = "InvalidSignature"
  /\ last.role \in nonReentrant
  /\ notEntered

\* The transactions that set profile data.
Setters ==
  {"setWalletAddress", "setMetadataURL", "setAccountDataEncryptionKey",
   "setAccount"}

\* C30 (profile setters): setWalletAddress, setMetadataURL,
\* setAccountDataEncryptionKey and setAccount, from an account, a signer or
\* any other address, change no exists flag, no signer field and no entry of
\* authorizedBy (so they do not register the caller), and disjointness and
\* index consistency hold after every step of any interleaving of them with
\* createAccount and the authorizations.
C30_ProfileFrame ==
  [][/\ last'.op \in Setters =>
          /\ authorizedBy' = authorizedBy
          /\ \A a \in Address :
               /\ accounts'[a].exists = accounts[a].exists
               /\ accounts'[a].signers = accounts[a].signers
     /\ C1_Disjointness'
     /\ C2_IndexConsistency']_vars

\* An authorized signer that is no account has set its key and its wallet
\* address, and is still no account.
C30_Witness ==
  /\ Committed("setAccount")
  /\ last.sender \in Claimed \ Registered
  /\ accounts[last.sender].walletAddress = last.sender
  /\ accounts[last.sender].dataEncryptionKey >= MinKeyLength

\* C21 (contention for one address): of the attempts to claim a free address
\* X (accounts authorizing X with X's valid signature, X creating its own
\* account), whichever the order in which the transactions run, the first
\* succeeds and every later one fails and changes nothing; the address is
\* then an account or a signer, not both.
C21_Contention ==
  \A x \in Key \ (Registered \cup Claimed) :
    /\ \A i \in Registered, r \in Role :
         LET first == authorizeDelegate(Storage, i, r, x, ValidProof(x, i))
         IN  /\ first.err = "ok"
             /\ first.authorizedBy[x] = i /\ ~first.accounts[x].exists
             /\ createAccount(first, x) = Revert(first, "AlreadyDelegate")
             /\ \A j \in Registered, q \in Role :
                  authorizeDelegate(first, j, q, x, ValidProof(x, j))
                    = Revert(first, "CandidateAlreadyClaimed")
    /\ LET first == createAccount(Storage, x)
       IN  /\ first.err = "ok"
           /\ first.accounts[x].exists /\ first.authorizedBy[x] = NULL_ADDRESS
           /\ \A j \in Registered, q \in Role :
                authorizeDelegate(first, j, q, x, ValidProof(x, j))
                  = Revert(first, "CandidateIsIdentity")

\* Two accounts, one signer: an account that came with the signer's valid
\* signature after the signer was claimed was refused.
C21_Witness ==
  /\ last.op = "authorize" /\ last.err = "CandidateAlreadyClaimed"
  /\ Cardinality(Registered) = 2
  /\ Cardinality(Claimed) = 1
  /\ Cardinality(Assigned) = 1

\* C26 (single-use proof): while C is a key of authorizedBy, the signature of
\* C over the account that authorized it, the proof that was accepted, is
\* accepted in no authorization, whoever the caller, whatever the role and
\* the candidate named with it.
C26_SingleUseProof ==
  \A c \in Claimed :
    \A sender \in Key, candidate \in Address, role \in Role :
      authorizeDelegate(Storage, sender, role, candidate,
                        ValidProof(c, authorizedBy[c])).err # "ok"

\* The one account there is holds a signer for each role and presented the
\* accepted signature of one of them again: it was refused.
C26_Witness ==
  /\ last.op = "authorize" /\ last.err = "CandidateAlreadyClaimed"
  /\ Cardinality(Registered) = 1
  /\ Cardinality(Assigned) = 3

(***************************************************************************)
(* packages/contractkit/src/wrappers/Validators.ts: reorderMember reads    *)
(* the member list of a group from the Validators contract and builds the  *)
(* transaction that moves one member to a new index.                       *)
(***************************************************************************)

\* Number of validators there are (bound of the model).
NumValidators == 4

Validator == 1..NumValidators

\* The member lists the contract returns: no validator is a member twice.
MemberLists ==
  {s \in UNION {[1..n -> Validator] : n \in 0..NumValidators} :
     \A i, j \in 1..Len(s) : s[i] = s[j] => i = j}

\* Array.prototype.indexOf: the least index of x, counted from 0, or -1.
indexOf(s, x) ==
  IF \E i \in 1..Len(s) : s[i] = x
    THEN (CHOOSE i \in 1..Len(s) :
            s[i] = x /\ \A j \in 1..(i - 1) : s[j] # x) - 1
    ELSE -1

\* Array.prototype.splice(start, deleteCount, ...items) for start >= 0, the
\* array after the call; indices count from 0.
splice(s, start, deleteCount, items) ==
  LET from == IF start > Len(s) THEN Len(s) ELSE start
  IN  SubSeq(s, 1, from) \o items \o SubSeq(s, from + deleteCount + 1, Len(s))

\* group.members[i], indices counted from 0.
at(s, i) == s[i + 1]

\* reorderMember that inserts the validator without removing it first.
reorderMember_noRemove(group, validator, newIndex) ==
  IF newIndex < 0 \/ newIndex >= Len(group)
    THEN Thrown("InvalidIndex")
    ELSE
      LET currentIdx == indexOf(group, validator)
      IN  IF currentIdx < 0 THEN Thrown("NotMember")
          ELSE IF currentIdx = newIndex THEN Thrown("AlreadyInPosition")
          ELSE
            LET added == splice(group, newIndex, 0, <<validator>>)
            IN  [err |-> "ok",
                 validator |-> validator,
                 nextMember |-> IF newIndex = Len(added) - 1
                                  THEN NULL_ADDRESS
                                  ELSE at(added, newIndex + 1),
                 prevMember |-> IF newIndex = 0
                                  THEN NULL_ADDRESS
                                  ELSE at(added, newIndex - 1),
                 members |-> added]

\* Lines 146-174, for the member list `group` that getValidatorGroup
\* returned: the error thrown, or the arguments of the contract call of the
\* transaction and the reordered local list they were read from.
reorderMember(group, validator, newIndex) ==
  IF newIndex < 0 \/ newIndex >= Len(group)
    THEN Thrown("InvalidIndex")
    ELSE
      LET currentIdx == indexOf(group, validator)
      IN  IF currentIdx < 0 THEN Thrown("NotMember")
          ELSE IF currentIdx = newIndex THEN Thrown("AlreadyInPosition")
          ELSE
            LET removed == splice(group, currentIdx, 1, <<>>)
                added == splice(removed, newIndex, 0, <<validator>>)
            IN  [err |-> "ok",
                 validator |-> validator,
                 nextMember |-> IF newIndex = Len(added) - 1
                                  THEN NULL_ADDRESS
                                  ELSE at(added, newIndex + 1),
                 prevMember |-> IF newIndex = 0
                                  THEN NULL_ADDRESS
                                  ELSE at(added, newIndex - 1),
                 members |-> added]

\* The indices a caller passes: those of the longest list, one below and
\* one above.
Indices == -1..NumValidators

\* A wrapper of a group whose member list is any the contract can hold.
InitValidators ==
  /\ Deployed
  /\ members \in MemberLists
  /\ built = Thrown("none")
  /\ accountAddressToPrivateKey = <<>>
  /\ answer = NoAnswer

\* One call of reorderMember; the list in the contract changes only when
\* the transaction is sent, which the wrapper does not do.
ReorderMember ==
  \E validator \in Validator, newIndex \in Indices :
    /\ built' = reorderMember(members, validator, newIndex)
    /\ UNCHANGED <<members, accountAddressToPrivateKey, answer>>
    /\ UNCHANGED registryVars

NextValidators == ReorderMember

SpecValidators == InitValidators /\ [][NextValidators]_vars

\* The members of s other than x, in their order.
Others(s, x) == SelectSeq(s, LAMBDA m : m # x)

\* C31 (reorderMember): for a member list M, reorderMember fails exactly
\* when newIndex < 0 or newIndex >= Len(M), when the validator is not in M,
\* or when it is at newIndex already; otherwise the reordered list holds the
\* validator at newIndex and the other members in their order in M, and the
\* transaction names as nextMember the member right after the validator in
\* the reordered list, NULL_ADDRESS when it is last, and as prevMember the
\* member right before it, NULL_ADDRESS when it is first.
C31_ReorderMember ==
  \A validator \in Validator, newIndex \in Indices :
    LET tx == reorderMember(members, validator, newIndex)
        n == Len(members)
        fails == \/ newIndex < 0
                 \/ newIndex >= n
                 \/ \A i \in 1..n : members[i] # validator
                 \/ members[newIndex + 1] = validator
    IN  IF fails
          THEN tx.err # "ok"
          ELSE /\ tx.err = "ok"
               /\ tx.validator = validator
               /\ Len(tx.members) = n
               /\ tx.members[newIndex + 1] = validator
               /\ Others(tx.members, validator) = Others(members, validator)
               /\ tx.nextMember = IF newIndex + 1 = n
                                    THEN NULL_ADDRESS
                                    ELSE tx.members[newIndex + 2]
               /\ tx.prevMember = IF newIndex = 0
                                    THEN NULL_ADDRESS
                                    ELSE tx.members[newIndex]

\* A transaction was built that moves the first of four members to the
\* last index: it has a member before it and none after it.
C31_Witness ==
  /\ Len(members) = NumValidators
  /\ built.err = "ok"
  /\ built.validator = members[1]
  /\ built.nextMember = NULL_ADDRESS
  /\ built.prevMember = members[Len(members)]
  /\ built.members # members

(***************************************************************************)
(* packages/contractkit/src/providers/celo-private-keys-subprovider.ts:    *)
(* CeloPrivateKeysWalletProvider keeps private keys by the lower-case      *)
(* address of their account, signs the transactions of these accounts and  *)
(* passes every other signing request on.                                  *)
(***************************************************************************)

\* Number of private keys there are (bound of the model).
NumKeys == 2

\* A private key as a string: which key it is, how it is prefixed and
\* whether its hex digits are upper case.
PrivateKeys == [key : 1..NumKeys, prefix : {"", "0x", "0X"}, upper : BOOLEAN]

\* An address as a string: whose address it is and how its hex digits are
\* cased.  The last address is that of a key nobody holds.
Cases == {"lower", "checksum", "upper"}

AddressStrings == [id : 1..(NumKeys + 1), case : Cases]

\* String.prototype.toLowerCase and toLocaleLowerCase on a hex string.
toLowerCase(a) == [a EXCEPT !.case = "lower"]

\* Lines 19-21.
getPrivateKeyWithout0xPrefix(privateKey) == [privateKey EXCEPT !.prefix = ""]

\* Lines 23-28: web3 gives the checksum address of the key, whatever the
\* case of the digits of the key.
generateAccountAddressFromPrivateKey(privateKey) ==
  [id |-> privateKey.key, case |-> "checksum"]

\* Lines 57-66, the Map after the call.
addAccount(map, key) ==
  LET privateKey == [getPrivateKeyWithout0xPrefix(key) EXCEPT !.prefix = "0x"]
      accountAddress ==
        toLowerCase(generateAccountAddressFromPrivateKey(privateKey))
  IN  IF accountAddress \in DOMAIN map
        THEN map
        ELSE [a \in DOMAIN map \cup {accountAddress} |->
                IF a = accountAddress THEN privateKey ELSE map[a]]

\* Lines 68-70.
getAccounts(map) == DOMAIN map

\* Lines 158-160, for a string; on undefined the call of toLocaleLowerCase
\* throws a TypeError.
canSign(map, from) == toLowerCase(from) \in DOMAIN map

\* Lines 82-88.
signingMethods ==
  {"eth_sendTransaction", "eth_signTransaction", "eth_sign", "personal_sign",
   "eth_signTypedData"}

Methods == signingMethods \cup {"eth_accounts", "eth_call"}

\* params[0] of a request: a transaction object with or without `from`, a
\* string (the address of eth_sign, the message of personal_sign), or
\* nothing.
Param0 ==
  {[kind |-> "object", from |-> a] : a \in AddressStrings \cup {Undefined}}
    \cup {[kind |-> "string", from |-> Undefined],
          [kind |-> "missing", from |-> Undefined]}

Payloads == [method : Methods, param0 : Param0]

\* Lines 77-99: "super" when the request goes to the handler of the
\* superclass, "next" when it is passed on, "TypeError" when the evaluation
\* of line 92 throws: the read of .from of a missing params[0], or canSign
\* of a `from` that is undefined.
handleRequest(map, payload) ==
  LET signingRequired == payload.method \in signingMethods
      from == payload.param0.from
      route == IF ~signingRequired THEN "super"
               ELSE IF payload.param0.kind = "missing" \/ from = Undefined
                 THEN "TypeError"
               ELSE IF canSign(map, from) THEN "super"
               ELSE "next"
  IN  [Answer("handleRequest", route, 0, from, <<>>)
         EXCEPT !.method = payload.method]

\* The values of an optional string field of a transaction.
Values == {"undefined", "0", "0X", "0x1"}

lowerCase(value) == IF value = "0X" THEN "0x" ELSE value

\* Lines 30-38.
isEmpty(value) ==
  \/ value = "undefined"
  \/ value = "0"
  \/ lowerCase(value) = "0x"
  \/ lowerCase(value) = "0x0"

\* The parameters of a transaction that signTransactionAsync reads, and
\* what the node answers to eth_coinbase.
TxParams ==
  [from : AddressStrings \cup {Undefined},
   chainId : {"undefined", "0x1"},
   nonce : {"undefined", "0x1"},
   gatewayFeeRecipient : Values,
   gasPrice : {"undefined", "0x1"},
   feeCurrency : {"undefined", "0x1"},
   coinbase : {"0x", "0x1"}]

\* Lines 162-168, for an account that is stored.
getPrivateKeyFor(map, account) == map[toLowerCase(account)]

\* Lines 101-156: the error thrown or the key the transaction was signed
\* with, and the helpers called before that.
signTransactionAsync(map, txParams) ==
  LET from == txParams.from
      chain == IF txParams.chainId = "undefined"
                 THEN <<"getChainId">> ELSE <<>>
      nonce == IF txParams.nonce = "undefined" THEN <<"getNonce">> ELSE <<>>
      fetchCoinbase == isEmpty(txParams.gatewayFeeRecipient)
      recipient == IF fetchCoinbase
                     THEN txParams.coinbase
                     ELSE txParams.gatewayFeeRecipient
      coinbase == IF fetchCoinbase THEN <<"getCoinbase">> ELSE <<>>
      fetchPrice == isEmpty(txParams.gasPrice)
      price == IF fetchPrice THEN <<"getGasPrice">> ELSE <<>>
  IN  IF from = Undefined
        THEN Answer("signTransactionAsync", "TypeError", 0, from, <<>>)
      ELSE IF ~canSign(map, from)
        THEN Answer("signTransactionAsync", "CannotSign", 0, from, <<>>)
      ELSE IF isEmpty(recipient)
        THEN Answer("signTransactionAsync", "NoGatewayFeeRecipient", 0, from,
                    chain \o nonce \o coinbase)
      ELSE IF fetchPrice /\ txParams.feeCurrency # "undefined"
        THEN Answer("signTransactionAsync", "NoGasPrice", 0, from,
                    chain \o nonce \o coinbase \o price)
      ELSE Answer("signTransactionAsync", "signed",
                  getPrivateKeyFor(map, from).key, from,
                  chain \o nonce \o coinbase \o price
                    \o <<"getPrivateKeyFor">>)

\* Lines 51-55: the provider is constructed with one private key.
InitProvider ==
  /\ Deployed
  /\ members = <<>>
  /\ built = Thrown("none")
  /\ \E privateKey \in PrivateKeys :
       accountAddressToPrivateKey = addAccount(<<>>, privateKey)
  /\ answer = NoAnswer

AddAccount ==
  \E privateKey \in PrivateKeys :
    /\ accountAddressToPrivateKey'
         = addAccount(accountAddressToPrivateKey, privateKey)
    /\ answer' = Answer("addAccount", "ok", 0,
                        generateAccountAddressFromPrivateKey(privateKey),
                        <<>>)
    /\ UNCHANGED <<members, built>>
    /\ UNCHANGED registryVars

HandleRequest ==
  \E payload \in Payloads :
    /\ answer' = handleRequest(accountAddressToPrivateKey, payload)
    /\ UNCHANGED <<members, built, accountAddressToPrivateKey>>
    /\ UNCHANGED registryVars

SignTransactionAsync ==
  \E txParams \in TxParams :
    /\ answer' = signTransactionAsync(accountAddressToPrivateKey, txParams)
    /\ UNCHANGED <<members, built, accountAddressToPrivateKey>>
    /\ UNCHANGED registryVars

NextProvider ==
  \/ AddAccount
  \/ HandleRequest
  \/ SignTransactionAsync

SpecProvider == InitProvider /\ [][NextProvider]_vars

\* The stored accounts, whatever the case of their hex digits.
Stored == {a.id : a \in getAccounts(accountAddressToPrivateKey)}

\* The request that handleRequest answered was handled by the provider
\* exactly when its method needs no signing or its from address is stored,
\* and was passed on otherwise.
RoutingByFrom ==
  answer.op = "handleRequest"
    => answer.kind = IF \/ answer.method \notin signingMethods
                        \/ answer.from.id \in Stored
                       THEN "super"
                       ELSE "next"

\* No signature is made for a from address that is not stored: the call
\* throws before any lookup or signing; and a signature is made with the
\* key of the from address.
NoForeignSignature ==
  \A txParams \in TxParams :
    LET signed == signTransactionAsync(accountAddressToPrivateKey, txParams)
    IN  /\ txParams.from.id \notin Stored
          => signed.kind \notin {"signed"} /\ signed.lookups = <<>>
        /\ signed.kind = "signed" => signed.key = txParams.from.id

\* addAccount with a key whose address is stored leaves the Map as it is.
AddAccountKeepsStored ==
  \A privateKey \in PrivateKeys :
    privateKey.key \in Stored
      => addAccount(accountAddressToPrivateKey, privateKey)
           = accountAddressToPrivateKey

\* C32 (provider routing): handleRequest handles a request itself exactly
\* when its method needs no signing or its from address is a stored account
\* address, compared without regard to case, and passes it on with next()
\* otherwise; signTransactionAsync makes no signature for a from address that
\* is not stored and throws before any lookup or signing; addAccount with a
\* key whose address is stored leaves the stored set unchanged.
C32_ProviderRouting ==
  /\ RoutingByFrom
  /\ NoForeignSignature
  /\ AddAccountKeepsStored

====
